---------------------------- MODULE Spec2Model ----------------------------
(***************************************************************************)
(* A model of the waSCC lattice client (src/src/lib.rs, controlplane.rs,   *)
(* events.rs) and of the latticectl command line (src/src/main.rs).        *)
(*                                                                         *)
(* Three groups of state:                                                  *)
(*   - the request/reply calls of Client (probes, auction, launch, stop)   *)
(*     and the CLI's start_actor, with a discrete clock;                   *)
(*   - the event watcher (watch_events): the subscription's handler        *)
(*     thread, the crossbeam sink and its consumer;                        *)
(*   - the envelope codec (BusEvent, CloudEvent and their JSON text).      *)
(*                                                                         *)
(* Text is a sequence of atoms: an atom is one of JSON's special           *)
(* characters or a run of ordinary characters, so that escaping, quoting   *)
(* and joining with "." are computed and not assumed.                      *)
(***************************************************************************)
EXTENDS Integers, Sequences, FiniteSets, TLC

(***************************************************************************)
(* Bounds of the model.                                                    *)
(***************************************************************************)
MaxTimeout == 2     \* the client's call timeout ranges over 1..MaxTimeout ticks
MaxReplies == 3     \* replies the hosts send during one call
MaxBuffered == 2    \* events held by the subscription, the sink and a blocked send
MaxInFlight == 1    \* replies to a call that runs beside the event watch
MaxSinkCap == 1     \* the capacity of a bounded sink ranges over 1..MaxSinkCap

(***************************************************************************)
(* Program constants.                                                      *)
(***************************************************************************)
AUCTION_TIMEOUT_SECONDS == 5

INVENTORY_ACTORS == <<"inventory", ".", "actors">>
INVENTORY_HOSTS == <<"inventory", ".", "hosts">>
INVENTORY_BINDINGS == <<"inventory", ".", "bindings">>
INVENTORY_CAPABILITIES == <<"inventory", ".", "capabilities">>
EVENTS == <<"events">>
CPLANE_PREFIX == <<"control">>
AUCTION_REQ == <<"auction", ".", "request">>
LAUNCH_ACTOR == <<"actor", ".", "launch">>
TERMINATE_ACTOR == <<"actor", ".", "terminate">>

(***************************************************************************)
(* The inputs the model draws from.                                        *)
(***************************************************************************)
Hosts == {"N1", "N2", "N3"}
Responders == {"N1", "N2"}   \* the hosts that answer probes and launches
Actors == {"M1", "M2"}
Namespaces == {[some |-> FALSE, v |-> <<>>], [some |-> TRUE, v |-> <<"prod">>]}
ItemLists == {<<"a">>, <<"b", "a">>}
ListKinds == {"Actors", "Bindings", "Capabilities"}
ProbeOps == {"get_hosts", "get_actors", "get_bindings", "get_capabilities"}

VARIABLES
    namespace,   \* Client.namespace: Option<String>
    timeout,     \* Client.timeout, in ticks
    pc,          \* where the current call is: idle, collecting, awaiting, done
    op,          \* the Client method being called
    arg,         \* its arguments: [actor_id, host_id]
    io,          \* what the transport did: [publishOk, flushOk]
    inbox,       \* messages delivered to the call's reply subscription, unread
    results,     \* the Vec accumulator (hosts, results)
    host_map,    \* the HashMap accumulator (host_actors, host_bindings, host_caps)
    result,      \* what the call returned
    elapsed,     \* ticks since the request was published
    waited,      \* ticks since the current wait for a reply began
    published,   \* every message this call published
    replyLog,    \* every reply sent to this call, with its arrival time
    cli,         \* latticectl start: none, auction, launch, exit0, exit1
    handler,     \* the subscription's handler thread: none, running, blocked, panicked
    subscribed,  \* the subject watch_events subscribed to
    watched,     \* what watch_events returned: None, Ok, Err
    subq,        \* messages the event subscription holds for the handler
    sink,        \* the channel behind `sender`: events sent and not yet received
    sinkCap,     \* its capacity; 0 is an unbounded channel
    rxAlive,     \* the consumer still holds the receiving end
    pending,     \* the event a blocked send is holding
    cpc,         \* codec: off, new, wrapped, decoded
    event,       \* the BusEvent given to CloudEvent::from
    envelope,    \* the CloudEvent made from it
    decoded      \* what decoding the envelope's data gave

clientVars == <<namespace, timeout, pc, op, arg, io, inbox, results, host_map,
                result, elapsed, waited, published, replyLog, cli>>

watchVars == <<handler, subscribed, watched, subq, sink, sinkCap, rxAlive,
               pending>>

codecVars == <<cpc, event, envelope, decoded>>

vars == <<clientVars, watchVars, codecVars>>


(***************************************************************************)
(* Subjects (lib.rs gen_subject, controlplane.rs gen_*_subject).           *)
(* format!("{}.{}", a, b) joins two texts with a "." atom.                 *)
(***************************************************************************)
Dot(a, b) == a \o <<".">> \o b

gen_subjectMutant(ns, subject) == <<"wasmbus", ".">> \o subject
gen_subject(ns, subject) ==
    IF ns.some THEN ns.v \o <<".", "wasmbus", ".">> \o subject
    ELSE <<"wasmbus", ".">> \o subject

gen_launch_actor_subjectMutant(ns, host) ==
    gen_subject(ns, Dot(CPLANE_PREFIX, LAUNCH_ACTOR))
gen_launch_actor_subject(ns, host) ==
    gen_subject(ns, Dot(Dot(CPLANE_PREFIX, <<host>>), LAUNCH_ACTOR))

gen_terminate_actor_subjectMutant(ns, host) ==
    gen_subject(ns, Dot(Dot(CPLANE_PREFIX, <<host>>), LAUNCH_ACTOR))
gen_terminate_actor_subject(ns, host) ==
    gen_subject(ns, Dot(Dot(CPLANE_PREFIX, <<host>>), TERMINATE_ACTOR))

AuctionSubject(ns) == gen_subject(ns, Dot(CPLANE_PREFIX, AUCTION_REQ))

ProbeSubject(o) ==
    CASE o = "get_hosts" -> INVENTORY_HOSTS
      [] o = "get_bindings" -> INVENTORY_BINDINGS
      [] o = "get_actors" -> INVENTORY_ACTORS
      [] o = "get_capabilities" -> INVENTORY_CAPABILITIES

(***************************************************************************)
(* Wire payloads.  A payload is the JSON shape of one protocol type; a     *)
(* serde decode into type T succeeds exactly on T's shape.                 *)
(***************************************************************************)
Payload(json, kind, host, items, actor_id) ==
    [json |-> json, kind |-> kind, host |-> host, items |-> items,
     actor_id |-> actor_id]

InventoryResponse(kind, host, items) ==
    Payload("InventoryResponse", kind, host, items, "")
LaunchAuctionResponse(host_id) ==
    Payload("LaunchAuctionResponse", "", host_id, <<>>, "")
LaunchAck(actor_id, host) == Payload("LaunchAck", "", host, <<>>, actor_id)
LaunchAuctionRequest(actor_id) ==
    Payload("LaunchAuctionRequest", "", "", <<>>, actor_id)
LaunchCommand(actor_id) == Payload("LaunchCommand", "", "", <<>>, actor_id)
TerminateCommand(actor_id) == Payload("TerminateCommand", "", "", <<>>, actor_id)
EmptyPayload == Payload("empty", "", "", <<>>, "")
Garbage == Payload("garbage", "", "", <<>>, "")

\* serde_json::from_slice::<T>(&msg.data)
from_sliceMutant(T, msg) == [ok |-> TRUE, v |-> msg]
from_slice(T, msg) == [ok |-> msg.json = T, v |-> msg]

\* The variant a probe keeps (the `if let` of each get_*).
KindOf(o) ==
    CASE o = "get_hosts" -> "Host"
      [] o = "get_bindings" -> "Bindings"
      [] o = "get_actors" -> "Actors"
      [] o = "get_capabilities" -> "Capabilities"

\* A well-formed reply of another variant than the probe keeps.
OtherKind(o) ==
    IF o = "get_hosts"
    THEN InventoryResponse("Actors", "N1", <<"a">>)
    ELSE InventoryResponse("Host", "N1", <<>>)

InventoryOfKind(kind) ==
    IF kind = "Host"
    THEN {InventoryResponse("Host", h, <<>>) : h \in Responders}
    ELSE {InventoryResponse(kind, h, l) : h \in Responders, l \in ItemLists}

\* What the hosts may send to the reply subject of a call.
Replies(o) ==
    CASE o \in ProbeOps ->
            InventoryOfKind(KindOf(o)) \cup {OtherKind(o), Garbage}
      [] o = "perform_launch_auction" ->
            {LaunchAuctionResponse(h) : h \in Hosts} \cup {Garbage}
      [] o = "launch_actor_on_host" ->
            {LaunchAck(a, h) : a \in Actors, h \in Responders} \cup {Garbage}
      [] OTHER -> {}

(***************************************************************************)
(* Results and accumulators.                                               *)
(***************************************************************************)
NoAck == LaunchAck("", "")
NoArg == [actor_id |-> "", host_id |-> ""]
NoIo == [publishOk |-> TRUE, flushOk |-> TRUE]
NoResult == [status |-> "None", err |-> "", vec |-> <<>>, map |-> <<>>,
             ack |-> NoAck]
OkVec(v) == [NoResult EXCEPT !.status = "Ok", !.vec = v]
OkMapMutant(m) ==
    IF DOMAIN m = {} THEN [NoResult EXCEPT !.status = "Err", !.err = "Timeout"]
    ELSE [NoResult EXCEPT !.status = "Ok", !.map = m]
OkMap(m) == [NoResult EXCEPT !.status = "Ok", !.map = m]
OkAck(a) == [NoResult EXCEPT !.status = "Ok", !.ack = a]
OkUnit == [NoResult EXCEPT !.status = "Ok"]
Err(e) == [NoResult EXCEPT !.status = "Err", !.err = e]

\* hosts.push(h) / results.push(resp)
PushMutant(v, x) == <<x>>
push(v, x) == Append(v, x)

\* map.entry(host).and_modify(|e| e.extend_from_slice(&b)).or_insert(b.clone())
EntryMergeMutant(m, host, b) == (host :> b) @@ m
entry_merge(m, host, b) ==
    IF host \in DOMAIN m
    THEN [m EXCEPT ![host] = @ \o b]
    ELSE (host :> b) @@ m

\* The wait of the current call: sub.timeout_iter(self.timeout) waits
\* self.timeout for each message; request_timeout waits the launch constant.
WaitLimit == IF pc = "awaiting" THEN AUCTION_TIMEOUT_SECONDS ELSE timeout

(***************************************************************************)
(* The calls of Client.                                                    *)
(***************************************************************************)
\* nc.request_multi(subject, payload)?  and the start of the loop.
request_multiMutant(o, a, subject, payload) ==
    /\ op' = o
    /\ arg' = a
    /\ results' = <<"N3">>
    /\ host_map' = ("N3" :> <<"a">>)
    /\ inbox' = <<>>
    /\ replyLog' = <<>>
    /\ elapsed' = 0
    /\ waited' = 0
    /\ \E publishOk \in BOOLEAN :
        /\ io' = [publishOk |-> publishOk, flushOk |-> TRUE]
        /\ IF publishOk
           THEN /\ published' = Append(published,
                                  [subject |-> subject, payload |-> payload])
                /\ pc' = "collecting"
                /\ result' = NoResult
           ELSE /\ published' = published
                /\ pc' = "done"
                /\ result' = Err("TransportError")
request_multi(o, a, subject, payload) ==
    /\ op' = o
    /\ arg' = a
    /\ results' = <<>>
    /\ host_map' = <<>>
    /\ inbox' = <<>>
    /\ replyLog' = <<>>
    /\ elapsed' = 0
    /\ waited' = 0
    /\ \E publishOk \in BOOLEAN :
        /\ io' = [publishOk |-> publishOk, flushOk |-> TRUE]
        /\ IF publishOk
           THEN /\ published' = Append(published,
                                  [subject |-> subject, payload |-> payload])
                /\ pc' = "collecting"
                /\ result' = NoResult
           ELSE /\ published' = published
                /\ pc' = "done"
                /\ result' = Err("TransportError")

Probe(o) ==
    /\ pc = "idle"
    /\ cli.stage = "none"
    /\ request_multi(o, NoArg, gen_subject(namespace, ProbeSubject(o)),
                     EmptyPayload)
    /\ UNCHANGED <<namespace, timeout, cli, watchVars, codecVars>>

get_hosts == Probe("get_hosts")
get_bindings == Probe("get_bindings")
get_actors == Probe("get_actors")
get_capabilities == Probe("get_capabilities")

AuctionBegin(actor) ==
    request_multi("perform_launch_auction",
                  [actor_id |-> actor, host_id |-> ""],
                  AuctionSubject(namespace), LaunchAuctionRequest(actor))

perform_launch_auction ==
    /\ pc = "idle"
    /\ cli.stage = "none"
    /\ \E actor \in Actors : AuctionBegin(actor)
    /\ UNCHANGED <<namespace, timeout, cli, watchVars, codecVars>>

\* The body of `for msg in sub.timeout_iter(self.timeout)` for one message.
LoopBodyMutant(msg) ==
    IF op = "perform_launch_auction"
    THEN LET d == from_slice("LaunchAuctionResponse", msg) IN
         IF d.ok
         THEN [ok |-> TRUE, vec |-> push(results, d.v.host), map |-> host_map]
         ELSE [ok |-> FALSE, vec |-> <<>>, map |-> <<>>]
    ELSE LET d == from_slice("InventoryResponse", msg) IN
         IF ~d.ok
         THEN [ok |-> FALSE, vec |-> <<>>, map |-> <<>>]
         ELSE IF op = "get_hosts"
         THEN [ok |-> TRUE, vec |-> push(results, d.v.host), map |-> host_map]
         ELSE [ok |-> TRUE, vec |-> results,
               map |-> entry_merge(host_map, d.v.host, d.v.items)]
LoopBody(msg) ==
    IF op = "perform_launch_auction"
    THEN LET d == from_slice("LaunchAuctionResponse", msg) IN
         IF d.ok
         THEN [ok |-> TRUE, vec |-> push(results, d.v.host), map |-> host_map]
         ELSE [ok |-> FALSE, vec |-> <<>>, map |-> <<>>]
    ELSE LET d == from_slice("InventoryResponse", msg) IN
         IF ~d.ok
         THEN [ok |-> FALSE, vec |-> <<>>, map |-> <<>>]
         ELSE IF d.v.kind # KindOf(op)
         THEN [ok |-> TRUE, vec |-> results, map |-> host_map]
         ELSE IF op = "get_hosts"
         THEN [ok |-> TRUE, vec |-> push(results, d.v.host), map |-> host_map]
         ELSE [ok |-> TRUE, vec |-> results,
               map |-> entry_merge(host_map, d.v.host, d.v.items)]

\* timeout_iter yields the next message: one turn of the loop.
timeout_iter_nextMutant ==
    /\ pc = "collecting"
    /\ inbox # <<>>
    /\ LET r == LoopBody(Head(inbox)) IN
       /\ results' = IF r.ok THEN r.vec ELSE results
       /\ host_map' = IF r.ok THEN r.map ELSE host_map
       /\ pc' = pc
       /\ result' = result
       /\ inbox' = Tail(inbox)
    /\ waited' = 0
    /\ UNCHANGED <<namespace, timeout, op, arg, io, elapsed, published,
                   replyLog, cli,
                   watchVars, codecVars>>
timeout_iter_next ==
    /\ pc = "collecting"
    /\ inbox # <<>>
    /\ LET r == LoopBody(Head(inbox)) IN
       /\ results' = r.vec
       /\ host_map' = r.map
       /\ IF r.ok
          THEN /\ pc' = pc
               /\ result' = result
               /\ inbox' = Tail(inbox)
          ELSE /\ pc' = "done"
               /\ result' = Err("DecodeError")
               /\ inbox' = <<>>
    /\ waited' = 0
    /\ UNCHANGED <<namespace, timeout, op, arg, io, elapsed, published,
                   replyLog, cli,
                   watchVars, codecVars>>

\* timeout_iter ends: no message for self.timeout; the call returns Ok.
timeout_iter_end ==
    /\ pc = "collecting"
    /\ inbox = <<>>
    /\ waited >= timeout
    /\ pc' = "done"
    /\ result' = IF op \in {"get_hosts", "perform_launch_auction"}
                 THEN OkVec(results) ELSE OkMap(host_map)
    /\ results' = <<>>
    /\ host_map' = <<>>
    /\ UNCHANGED <<namespace, timeout, op, arg, io, inbox, elapsed, waited,
                   published, replyLog, cli,
                   watchVars, codecVars>>

\* nc.request_timeout(subject, payload, AUCTION_TIMEOUT_SECONDS): the send.
LaunchBegin(actor, host) ==
    /\ op' = "launch_actor_on_host"
    /\ arg' = [actor_id |-> actor, host_id |-> host]
    /\ results' = <<>>
    /\ host_map' = <<>>
    /\ inbox' = <<>>
    /\ replyLog' = <<>>
    /\ elapsed' = 0
    /\ waited' = 0
    /\ \E publishOk \in BOOLEAN :
        /\ io' = [publishOk |-> publishOk, flushOk |-> TRUE]
        /\ IF publishOk
           THEN /\ published' = Append(published,
                    [subject |-> gen_launch_actor_subject(namespace, host),
                     payload |-> LaunchCommand(actor)])
                /\ pc' = "awaiting"
                /\ result' = NoResult
           ELSE /\ published' = published
                /\ pc' = "done"
                /\ result' = Err("TransportError")

launch_actor_on_host ==
    /\ pc = "idle"
    /\ cli.stage = "none"
    /\ \E actor \in Actors, host \in Hosts : LaunchBegin(actor, host)
    /\ UNCHANGED <<namespace, timeout, cli, watchVars, codecVars>>

\* What launch_actor_on_host returns for the reply it received.
LaunchResult(msg) ==
    LET d == from_slice("LaunchAck", msg) IN
    IF d.ok THEN OkAck(d.v) ELSE Err("DecodeError")

\* request_timeout returns the first reply.
launch_replyMutant ==
    /\ pc = "awaiting"
    /\ inbox # <<>>
    /\ IF from_slice("LaunchAck", Head(inbox)).ok
       THEN /\ result' = OkAck(Head(inbox))
            /\ pc' = "done"
            /\ inbox' = <<>>
            /\ published' = published
       ELSE /\ result' = result
            /\ pc' = pc
            /\ inbox' = Tail(inbox)
            /\ published' = Append(published, published[Len(published)])
    /\ UNCHANGED <<namespace, timeout, op, arg, io, results, host_map, elapsed,
                   waited, replyLog, cli,
                   watchVars, codecVars>>
launch_reply ==
    /\ pc = "awaiting"
    /\ inbox # <<>>
    /\ result' = LaunchResult(Head(inbox))
    /\ pc' = "done"
    /\ inbox' = <<>>
    /\ UNCHANGED <<namespace, timeout, op, arg, io, results, host_map, elapsed,
                   waited, published, replyLog, cli,
                   watchVars, codecVars>>

\* request_timeout gives up.
launch_timeoutMutant ==
    /\ pc = "awaiting"
    /\ inbox = <<>>
    /\ waited >= timeout
    /\ result' = Err("Timeout")
    /\ pc' = "done"
    /\ UNCHANGED <<namespace, timeout, op, arg, io, inbox, results, host_map,
                   elapsed, waited, published, replyLog, cli,
                   watchVars, codecVars>>
launch_timeout ==
    /\ pc = "awaiting"
    /\ inbox = <<>>
    /\ waited >= AUCTION_TIMEOUT_SECONDS
    /\ result' = Err("Timeout")
    /\ pc' = "done"
    /\ UNCHANGED <<namespace, timeout, op, arg, io, inbox, results, host_map,
                   elapsed, waited, published, replyLog, cli,
                   watchVars, codecVars>>

\* What stop_actor_on_host returns: publish(..)? then `let _ = flush()`.
StopResultMutant(publishOk, flushOk) ==
    IF publishOk /\ flushOk THEN OkUnit ELSE Err("TransportError")
StopResult(publishOk, flushOk) ==
    IF publishOk THEN OkUnit ELSE Err("TransportError")

stop_actor_on_host ==
    /\ pc = "idle"
    /\ cli.stage = "none"
    /\ \E actor \in Actors, host \in Hosts, publishOk, flushOk \in BOOLEAN :
        /\ op' = "stop_actor_on_host"
        /\ arg' = [actor_id |-> actor, host_id |-> host]
        /\ io' = [publishOk |-> publishOk, flushOk |-> flushOk]
        /\ published' =
             IF publishOk
             THEN Append(published,
                    [subject |-> gen_terminate_actor_subject(namespace, host),
                     payload |-> TerminateCommand(actor)])
             ELSE published
        /\ result' = StopResult(publishOk, flushOk)
    /\ pc' = "done"
    /\ results' = <<>>
    /\ host_map' = <<>>
    /\ inbox' = <<>>
    /\ replyLog' = <<>>
    /\ elapsed' = 0
    /\ waited' = 0
    /\ UNCHANGED <<namespace, timeout, cli, watchVars, codecVars>>

(***************************************************************************)
(* latticectl start (main.rs start_actor): the auction, then the launch on *)
(* the first candidate, then the comparison of the acknowledgement.        *)
(***************************************************************************)
NoCli == [stage |-> "none", err |-> ""]

\* `ack.actor_id != actor || ack.host != candidates[0].host_id`
UnexpectedAckMutant(ack, actor, host_id) == ack.actor_id # actor
UnexpectedAck(ack, actor, host_id) ==
    ack.actor_id # actor \/ ack.host # host_id

start_actor ==
    /\ pc = "idle"
    /\ cli.stage = "none"
    /\ \E actor \in Actors : AuctionBegin(actor)
    /\ cli' = [stage |-> "auction", err |-> ""]
    /\ UNCHANGED <<namespace, timeout, watchVars, codecVars>>

\* perform_launch_auction(..)? has returned to start_actor.
start_actor_candidatesMutant ==
    /\ pc = "done"
    /\ cli.stage = "auction"
    /\ IF result.status = "Err"
       THEN /\ cli' = [stage |-> "exit1", err |-> result.err]
            /\ UNCHANGED <<pc, op, arg, io, inbox, results, host_map, result,
                           elapsed, waited, published, replyLog>>
       ELSE IF Len(result.vec) > 0
       THEN /\ LaunchBegin(arg.actor_id, result.vec[Len(result.vec)])
            /\ cli' = [stage |-> "launch", err |-> ""]
       ELSE /\ cli' = [stage |-> "exit0", err |-> ""]
            /\ UNCHANGED <<pc, op, arg, io, inbox, results, host_map, result,
                           elapsed, waited, published, replyLog>>
    /\ UNCHANGED <<namespace, timeout, watchVars, codecVars>>
start_actor_candidates ==
    /\ pc = "done"
    /\ cli.stage = "auction"
    /\ IF result.status = "Err"
       THEN /\ cli' = [stage |-> "exit1", err |-> result.err]
            /\ UNCHANGED <<pc, op, arg, io, inbox, results, host_map, result,
                           elapsed, waited, published, replyLog>>
       ELSE IF Len(result.vec) > 0
       THEN /\ LaunchBegin(arg.actor_id, result.vec[1])
            /\ cli' = [stage |-> "launch", err |-> ""]
       ELSE /\ cli' = [stage |-> "exit0", err |-> ""]
            /\ UNCHANGED <<pc, op, arg, io, inbox, results, host_map, result,
                           elapsed, waited, published, replyLog>>
    /\ UNCHANGED <<namespace, timeout, watchVars, codecVars>>

\* launch_actor_on_host(..)? has returned to start_actor.
start_actor_ack ==
    /\ pc = "done"
    /\ cli.stage = "launch"
    /\ cli' = IF result.status = "Err"
              THEN [stage |-> "exit1", err |-> result.err]
              ELSE IF UnexpectedAck(result.ack, arg.actor_id, arg.host_id)
              THEN [stage |-> "exit1", err |-> "UnexpectedAck"]
              ELSE [stage |-> "exit0", err |-> ""]
    /\ UNCHANGED <<namespace, timeout, pc, op, arg, io, inbox, results,
                   host_map, result, elapsed, waited, published, replyLog,
                   watchVars, codecVars>>

(***************************************************************************)
(* The environment: the hosts and the clock.                               *)
(***************************************************************************)
\* A host publishes a reply on the call's reply subject.
HostReply ==
    /\ pc \in {"collecting", "awaiting"}
    /\ Len(replyLog) < MaxReplies
    /\ waited < WaitLimit
    /\ \E msg \in Replies(op) :
        /\ inbox' = Append(inbox, msg)
        /\ replyLog' = Append(replyLog, [at |-> elapsed, msg |-> msg])
    /\ UNCHANGED <<namespace, timeout, pc, op, arg, io, results, host_map,
                   result, elapsed, waited, published, cli,
                   watchVars, codecVars>>

\* One tick passes while the call waits with nothing to read.
Tick ==
    /\ pc \in {"collecting", "awaiting"}
    /\ inbox = <<>>
    /\ waited < WaitLimit
    /\ elapsed' = elapsed + 1
    /\ waited' = waited + 1
    /\ UNCHANGED <<namespace, timeout, pc, op, arg, io, inbox, results,
                   host_map, result, published, replyLog, cli,
                   watchVars, codecVars>>

\* The caller has its result; the client is ready for the next call.
Return ==
    /\ pc = "done"
    /\ cli.stage \in {"none", "exit0", "exit1"}
    /\ pc' = "idle"
    /\ op' = "none"
    /\ arg' = NoArg
    /\ io' = NoIo
    /\ inbox' = <<>>
    /\ results' = <<>>
    /\ host_map' = <<>>
    /\ result' = NoResult
    /\ elapsed' = 0
    /\ waited' = 0
    /\ published' = <<>>
    /\ replyLog' = <<>>
    /\ cli' = NoCli
    /\ UNCHANGED <<namespace, timeout, watchVars, codecVars>>

\* Client::new(host, credsfile, call_timeout, namespace)
ClientInit ==
    /\ namespace \in Namespaces
    /\ timeout \in 1..MaxTimeout
    /\ pc = "idle"
    /\ op = "none"
    /\ arg = NoArg
    /\ io = NoIo
    /\ inbox = <<>>
    /\ results = <<>>
    /\ host_map = <<>>
    /\ result = NoResult
    /\ elapsed = 0
    /\ waited = 0
    /\ published = <<>>
    /\ replyLog = <<>>
    /\ cli = NoCli

(***************************************************************************)
(* JSON text (serde_json).  DQ is the double quote, BS the backslash, LF   *)
(* the line feed; every other atom is itself.                              *)
(***************************************************************************)
DQ == "\""
BS == "\\"
LF == "LF"
Punctuation == {"{", "}", ":", ","}

\* serde_json's string escaping, atom by atom.
EscapeAtomMutant(c) ==
    IF c = DQ THEN <<BS, DQ>>
    ELSE IF c = LF THEN <<BS, "n">>
    ELSE <<c>>
EscapeAtom(c) ==
    IF c = DQ THEN <<BS, DQ>>
    ELSE IF c = BS THEN <<BS, BS>>
    ELSE IF c = LF THEN <<BS, "n">>
    ELSE <<c>>

RECURSIVE Escape(_)
Escape(text) ==
    IF text = <<>> THEN <<>>
    ELSE IF Len(text) = 1 THEN EscapeAtom(text[1])
    ELSE LET mid == Len(text) \div 2 IN
         Escape(SubSeq(text, 1, mid)) \o Escape(SubSeq(text, mid + 1, Len(text)))

\* A JSON string, an object member, an object.
JsonStr(text) == <<DQ>> \o Escape(text) \o <<DQ>>
JsonBool(b) == IF b THEN <<"true">> ELSE <<"false">>
Member(key, value) == JsonStr(<<key>>) \o <<":">> \o value

RECURSIVE Join(_)
Join(members) ==
    IF members = <<>> THEN <<>>
    ELSE IF Len(members) = 1 THEN members[1]
    ELSE members[1] \o <<",">> \o Join(Tail(members))

JsonObject(members) == <<"{">> \o Join(members) \o <<"}">>

\* The tokens of a JSON text; a "bad" token where the text is not JSON.
Tok(t, text) == [t |-> t, s |-> text]

\* The backslashes right before place i.
RunBefore(text, i) ==
    CHOOSE n \in 0..(i - 1) :
        /\ \A m \in 1..n : text[i - m] = BS
        /\ n = i - 1 \/ text[i - n - 1] # BS

\* A backslash that begins an escape, and the atom an escape ends with.
IsLead(text, i) == text[i] = BS /\ RunBefore(text, i) % 2 = 0
IsEscaped(text, i) == RunBefore(text, i) % 2 = 1

\* The quotes that open or close a string.
Quotes(text) ==
    {i \in 1..Len(text) : text[i] = DQ /\ ~IsEscaped(text, i)}
Before(quotes, i) == Cardinality({j \in quotes : j < i})
InStr(quotes, i) == i \notin quotes /\ Before(quotes, i) % 2 = 1

\* Whether the text is not made of JSON tokens.
NotJsonTokens(text, quotes) ==
    \/ Cardinality(quotes) % 2 = 1
    \/ \E i \in 1..Len(text) :
        IF InStr(quotes, i)
        THEN IF IsEscaped(text, i)
             THEN text[i] \notin {DQ, BS, "n"}
             ELSE text[i] = LF
        ELSE /\ i \notin quotes
             /\ text[i] \notin Punctuation \cup {"true", "false"}

\* The text of the string between places lo and hi, its escapes undone.
RECURSIVE Unescaped(_, _, _)
Unescaped(text, lo, hi) ==
    IF lo > hi THEN <<>>
    ELSE IF lo = hi
    THEN IF IsLead(text, lo) THEN <<>>
         ELSE IF IsEscaped(text, lo) /\ text[lo] = "n" THEN <<LF>>
         ELSE <<text[lo]>>
    ELSE LET mid == (lo + hi) \div 2 IN
         Unescaped(text, lo, mid) \o Unescaped(text, mid + 1, hi)

\* The tokens that begin at the places lo..hi.
RECURSIVE Lex(_, _, _, _)
Lex(text, quotes, lo, hi) ==
    IF lo > hi THEN <<>>
    ELSE IF lo = hi
    THEN IF lo \in quotes
         THEN IF Before(quotes, lo) % 2 = 0
              THEN LET close == CHOOSE j \in quotes :
                           j > lo /\ \A k \in quotes : k > lo => j <= k IN
                   <<Tok("str", Unescaped(text, lo + 1, close - 1))>>
              ELSE <<>>
         ELSE IF InStr(quotes, lo) THEN <<>>
         ELSE <<Tok(text[lo], <<>>)>>
    ELSE LET mid == (lo + hi) \div 2 IN
         Lex(text, quotes, lo, mid) \o Lex(text, quotes, mid + 1, hi)

Tokens(text) ==
    LET quotes == Quotes(text) IN
    IF NotJsonTokens(text, quotes)
    THEN <<Tok("bad", <<>>)>>
    ELSE Lex(text, quotes, 1, Len(text))

\* The members between the braces of an object whose values are strings
\* and booleans: [ok, keys, vals].
RECURSIVE Members(_, _, _)
Members(toks, keys, vals) ==
    IF /\ Len(toks) >= 3
       /\ toks[1].t = "str"
       /\ toks[2].t = ":"
       /\ toks[3].t \in {"str", "true", "false"}
    THEN LET ks == Append(keys, toks[1].s)
             vs == Append(vals, toks[3]) IN
         IF Len(toks) = 3
         THEN [ok |-> TRUE, keys |-> ks, vals |-> vs]
         ELSE IF toks[4].t = "," /\ Len(toks) > 4
         THEN Members(SubSeq(toks, 5, Len(toks)), ks, vs)
         ELSE [ok |-> FALSE, keys |-> <<>>, vals |-> <<>>]
    ELSE [ok |-> FALSE, keys |-> <<>>, vals |-> <<>>]

ParseObject(toks) ==
    IF Len(toks) >= 2 /\ toks[1].t = "{" /\ toks[Len(toks)].t = "}"
    THEN IF Len(toks) = 2
         THEN [ok |-> TRUE, keys |-> <<>>, vals |-> <<>>]
         ELSE Members(SubSeq(toks, 2, Len(toks) - 1), <<>>, <<>>)
    ELSE [ok |-> FALSE, keys |-> <<>>, vals |-> <<>>]

\* The places of a field in an object; a derived Deserialize wants one.
Places(obj, key) == {i \in 1..Len(obj.keys) : obj.keys[i] = <<key>>}
HasOne(obj, key, types) ==
    /\ Cardinality(Places(obj, key)) = 1
    /\ \A i \in Places(obj, key) : obj.vals[i].t \in types
Field(obj, key) == obj.vals[CHOOSE i \in Places(obj, key) : TRUE]

(***************************************************************************)
(* BusEvent (events.rs).                                                   *)
(***************************************************************************)
EVENT_TYPE_PREFIX == <<"wasmbus", ".", "events">>

Texts == {<<"M1">>, <<"N1">>, <<DQ, "x">>, <<BS, "n">>, <<"}", LF>>}

BusEvent(tag, host, actor, capid, instance_name, success) ==
    [tag |-> tag, host |-> host, actor |-> actor, capid |-> capid,
     instance_name |-> instance_name, success |-> success]

HostTags == {"HostStarted", "HostStopped"}
ActorTags == {"ActorStarting", "ActorStarted", "ActorStopped",
              "ActorUpdating", "ActorBecameHealthy", "ActorBecameUnhealthy"}
UpdateTags == {"ActorUpdateComplete"}
ProviderTags == {"ProviderLoaded", "ProviderRemoved"}
BindingTags == {"ActorBindingCreated", "ActorBindingRemoved"}
Tags == HostTags \cup ActorTags \cup UpdateTags \cup ProviderTags
            \cup BindingTags

NoEvent == BusEvent("", <<>>, <<>>, <<>>, <<>>, FALSE)

BusEvents ==
    {BusEvent(t, h, <<>>, <<>>, <<>>, FALSE) : t \in HostTags, h \in Texts}
    \cup {BusEvent(t, h, a, <<>>, <<>>, FALSE) :
            t \in ActorTags, h \in Texts, a \in Texts}
    \cup {BusEvent(t, h, a, <<>>, <<>>, b) :
            t \in UpdateTags, h \in Texts, a \in Texts, b \in BOOLEAN}
    \cup {BusEvent(t, h, <<>>, c, i, FALSE) :
            t \in ProviderTags, h \in Texts, c \in Texts, i \in Texts}
    \cup {BusEvent(t, h, a, c, i, FALSE) :
            t \in BindingTags, h \in Texts, a \in Texts, c \in Texts,
            i \in Texts}

suffix(tag) ==
    CASE tag = "HostStarted" -> "host_started"
      [] tag = "HostStopped" -> "host_stopped"
      [] tag = "ActorStarting" -> "actor_starting"
      [] tag = "ActorStarted" -> "actor_started"
      [] tag = "ActorStopped" -> "actor_stopped"
      [] tag = "ActorUpdating" -> "actor_updating"
      [] tag = "ActorUpdateComplete" -> "actor_update_complete"
      [] tag = "ProviderLoaded" -> "provider_loaded"
      [] tag = "ProviderRemoved" -> "provider_removed"
      [] tag = "ActorBindingCreated" -> "actor_binding_created"
      [] tag = "ActorBindingRemoved" -> "actor_binding_removed"
      [] tag = "ActorBecameHealthy" -> "actor_became_healthy"
      [] tag = "ActorBecameUnhealthy" -> "actor_became_unhealthy"

event_typeMutant(e) == EVENT_TYPE_PREFIX \o <<".">> \o e.host
event_type(e) == Dot(EVENT_TYPE_PREFIX, <<suffix(e.tag)>>)

subjectMutant(e) == e.host
subject(e) ==
    CASE e.tag \in HostTags -> e.host
      [] e.tag \in ActorTags \cup UpdateTags -> e.actor
      [] e.tag \in ProviderTags -> Dot(e.capid, e.instance_name)
      [] e.tag \in BindingTags ->
            Dot(Dot(e.actor, e.capid), e.instance_name)

\* serde_json::to_string(&event): the externally tagged enum, the fields
\* of a variant in the order of their declaration.
VariantBody(e) ==
    CASE e.tag \in HostTags -> JsonStr(e.host)
      [] e.tag \in ActorTags ->
            JsonObject(<<Member("actor", JsonStr(e.actor)),
                         Member("host", JsonStr(e.host))>>)
      [] e.tag \in UpdateTags ->
            JsonObject(<<Member("actor", JsonStr(e.actor)),
                         Member("success", JsonBool(e.success)),
                         Member("host", JsonStr(e.host))>>)
      [] e.tag \in ProviderTags ->
            JsonObject(<<Member("capid", JsonStr(e.capid)),
                         Member("instance_name", JsonStr(e.instance_name)),
                         Member("host", JsonStr(e.host))>>)
      [] e.tag \in BindingTags ->
            JsonObject(<<Member("host", JsonStr(e.host)),
                         Member("actor", JsonStr(e.actor)),
                         Member("capid", JsonStr(e.capid)),
                         Member("instance_name", JsonStr(e.instance_name))>>)

to_string(e) == JsonObject(<<Member(e.tag, VariantBody(e))>>)

\* The string fields a struct variant declares.
FieldsOf(tag) ==
    CASE tag \in ActorTags \cup UpdateTags -> {"actor", "host"}
      [] tag \in ProviderTags -> {"capid", "instance_name", "host"}
      [] tag \in BindingTags -> {"host", "actor", "capid", "instance_name"}
      [] OTHER -> {}

\* serde_json::from_str::<BusEvent>(text)
DecodeFailed == [ok |-> FALSE, v |-> NoEvent]

StructVariant(tag, obj) ==
    IF /\ obj.ok
       /\ \A k \in FieldsOf(tag) : HasOne(obj, k, {"str"})
       /\ tag \in UpdateTags => HasOne(obj, "success", {"true", "false"})
    THEN LET F(k) == IF k \in FieldsOf(tag) THEN Field(obj, k).s ELSE <<>> IN
         [ok |-> TRUE,
          v |-> BusEvent(tag, F("host"), F("actor"), F("capid"),
                         F("instance_name"),
                         tag \in UpdateTags /\ Field(obj, "success").t = "true")]
    ELSE DecodeFailed

from_str(text) ==
    LET toks == Tokens(text)
        n == Len(toks) IN
    IF /\ n >= 5
       /\ \A i \in 1..n : toks[i].t # "bad"
       /\ toks[1].t = "{"
       /\ toks[2].t = "str"
       /\ toks[3].t = ":"
       /\ toks[n].t = "}"
       /\ Len(toks[2].s) = 1
       /\ toks[2].s[1] \in Tags
    THEN LET tag == toks[2].s[1]
             body == SubSeq(toks, 4, n - 1) IN
         IF tag \in HostTags
         THEN IF Len(body) = 1 /\ body[1].t = "str"
              THEN [ok |-> TRUE,
                    v |-> BusEvent(tag, body[1].s, <<>>, <<>>, <<>>, FALSE)]
              ELSE DecodeFailed
         ELSE StructVariant(tag, ParseObject(body))
    ELSE DecodeFailed

(***************************************************************************)
(* CloudEvent (events.rs).                                                 *)
(***************************************************************************)
Uuids == {<<"uuid-1">>, <<"uuid-2">>}
Times == {<<"2020-05-01T12:00:00Z">>}
JSON_CONTENT_TYPE == <<"application/json">>

CloudEvent(version, type, tver, source, id, time, ctype, subj, data) ==
    [cloud_events_version |-> version, event_type |-> type,
     event_type_version |-> tver, source |-> source,
     event_id |-> id, event_time |-> time, content_type |-> ctype,
     subject |-> subj, data |-> data]

NoEnvelope ==
    CloudEvent(<<>>, <<>>, <<>>, <<>>, <<>>, <<>>, <<>>,
               [some |-> FALSE, v |-> <<>>], <<>>)

\* impl From<BusEvent> for CloudEvent, with the uuid and the clock it reads.
CloudEventFrom(e, uuid, now) ==
    CloudEvent(<<"1.0">>, event_type(e), <<"0.1">>,
               <<"https://wascc.dev/lattice/events">>, uuid, now,
               JSON_CONTENT_TYPE, [some |-> TRUE, v |-> subject(e)],
               to_string(e))

\* The derived Serialize of CloudEvent: the renamed fields, the subject
\* left out when it is None.
to_vec(ce) ==
    JsonObject(
        <<Member("specversion", JsonStr(ce.cloud_events_version)),
          Member("type", JsonStr(ce.event_type)),
          Member("typeversion", JsonStr(ce.event_type_version)),
          Member("source", JsonStr(ce.source)),
          Member("id", JsonStr(ce.event_id)),
          Member("time", JsonStr(ce.event_time)),
          Member("datacontenttype", JsonStr(ce.content_type))>>
        \o (IF ce.subject.some
            THEN <<Member("subject", JsonStr(ce.subject.v))>> ELSE <<>>)
        \o <<Member("data", JsonStr(ce.data))>>)

\* The derived Deserialize of CloudEvent: every field but the subject is
\* required, and the time has to be a timestamp.
CloudEventKeys == {"specversion", "type", "typeversion", "source", "id",
                   "time", "datacontenttype", "data"}

from_slice_CloudEvent(text) ==
    LET toks == Tokens(text)
        obj == IF \A i \in 1..Len(toks) : toks[i].t # "bad"
               THEN ParseObject(toks)
               ELSE [ok |-> FALSE, keys |-> <<>>, vals |-> <<>>] IN
    IF /\ obj.ok
       /\ \A k \in CloudEventKeys : HasOne(obj, k, {"str"})
       /\ Field(obj, "time").s \in Times
       /\ Places(obj, "subject") = {} \/ HasOne(obj, "subject", {"str"})
    THEN [ok |-> TRUE,
          v |-> CloudEvent(Field(obj, "specversion").s, Field(obj, "type").s,
                   Field(obj, "typeversion").s, Field(obj, "source").s,
                   Field(obj, "id").s, Field(obj, "time").s,
                   Field(obj, "datacontenttype").s,
                   IF Places(obj, "subject") = {}
                   THEN [some |-> FALSE, v |-> <<>>]
                   ELSE [some |-> TRUE, v |-> Field(obj, "subject").s],
                   Field(obj, "data").s)]
    ELSE [ok |-> FALSE, v |-> NoEnvelope]

(***************************************************************************)
(* The event watcher (lib.rs watch_events) and its consumer (main.rs       *)
(* watch_events).                                                          *)
(***************************************************************************)
ActorStartedM1 == BusEvent("ActorStarted", <<"N1">>, <<"M1">>, <<>>, <<>>, FALSE)
FeedEvents ==
    {ActorStartedM1,
     BusEvent("HostStopped", <<BS, "n">>, <<>>, <<>>, <<>>, FALSE),
     BusEvent("ActorUpdateComplete", <<"N1">>, <<DQ, "x">>, <<>>, <<>>, TRUE)}

\* What may be published on the event subject: the envelopes of events, a
\* text that is no JSON, an envelope whose data is no BusEvent, and an
\* envelope of another content type.
Sample == CloudEventFrom(ActorStartedM1, <<"uuid-1">>, <<"2020-05-01T12:00:00Z">>)
NotJson == <<"{", DQ, "specversion">>
BadData == to_vec([Sample EXCEPT !.data = <<"{", "}">>])
TextPlain == to_vec([Sample EXCEPT !.content_type = <<"text", "/", "plain">>])
Feed ==
    {to_vec(CloudEventFrom(e, <<"uuid-2">>, <<"2020-05-01T12:00:00Z">>)) :
        e \in FeedEvents}
    \cup {NotJson, BadData, TextPlain}

\* The two decodes of the handler; either unwrap() panics on a failure.
WatcherDecode(data) ==
    LET ce == from_slice_CloudEvent(data) IN
    IF ce.ok THEN from_str(ce.v.data) ELSE DecodeFailed

\* The same for every message of the feed, evaluated once.
Decodes == [data \in Feed |-> WatcherDecode(data)]

Buffered == Len(subq) + Len(sink) + (IF handler = "blocked" THEN 1 ELSE 0)
SinkHasRoom == sinkCap = 0 \/ Len(sink) < sinkCap

\* self.nc.subscribe(subject)?.with_handler(..); the caller's channel is
\* unbounded() or bounded(cap).
watch_events ==
    /\ handler = "none"
    /\ watched = "None"
    /\ \E subscribeOk \in BOOLEAN, cap \in 0..MaxSinkCap :
        IF subscribeOk
        THEN /\ handler' = "running"
             /\ subscribed' = gen_subject(namespace, EVENTS)
             /\ watched' = "Ok"
             /\ sinkCap' = cap
        ELSE /\ watched' = "Err"
             /\ UNCHANGED <<handler, subscribed, sinkCap>>
    /\ UNCHANGED <<subq, sink, rxAlive, pending,
                   clientVars, codecVars>>

\* Some host publishes on the event subject.
Publish ==
    /\ subscribed # <<>>
    /\ Buffered < MaxBuffered
    /\ \E data \in Feed : subq' = Append(subq, data)
    /\ UNCHANGED <<handler, subscribed, watched, sink, sinkCap, rxAlive,
                   pending,
                   clientVars, codecVars>>

\* The closure given to with_handler, run on the next message.
handleMutant ==
    /\ handler = "running"
    /\ pc = "idle"
    /\ subq # <<>>
    /\ subq' = Tail(subq)
    /\ LET be == Decodes[Head(subq)] IN
       IF ~be.ok
       THEN /\ handler' = "panicked"
            /\ UNCHANGED <<sink, pending>>
       ELSE IF ~rxAlive
       THEN UNCHANGED <<handler, sink, pending>>
       ELSE IF SinkHasRoom
       THEN /\ sink' = Append(sink, be.v)
            /\ UNCHANGED <<handler, pending>>
       ELSE /\ handler' = "blocked"
            /\ pending' = be.v
            /\ sink' = sink
    /\ UNCHANGED <<subscribed, watched, sinkCap, rxAlive,
                   clientVars, codecVars>>
handle ==
    /\ handler = "running"
    /\ subq # <<>>
    /\ subq' = Tail(subq)
    /\ LET be == Decodes[Head(subq)] IN
       IF ~be.ok
       THEN /\ handler' = "panicked"
            /\ UNCHANGED <<sink, pending>>
       ELSE IF ~rxAlive
       THEN UNCHANGED <<handler, sink, pending>>
       ELSE IF SinkHasRoom
       THEN /\ sink' = Append(sink, be.v)
            /\ UNCHANGED <<handler, pending>>
       ELSE /\ handler' = "blocked"
            /\ pending' = be.v
            /\ sink' = sink
    /\ UNCHANGED <<subscribed, watched, sinkCap, rxAlive,
                   clientVars, codecVars>>

\* sender.send(be) returns: the channel has room again, or is disconnected.
send_returns ==
    /\ handler = "blocked"
    /\ ~rxAlive \/ SinkHasRoom
    /\ sink' = IF rxAlive THEN Append(sink, pending) ELSE sink
    /\ handler' = "running"
    /\ pending' = NoEvent
    /\ UNCHANGED <<subscribed, watched, subq, sinkCap, rxAlive,
                   clientVars, codecVars>>

\* The consumer's r.recv().
recvMutant ==
    /\ rxAlive
    /\ sink # <<>>
    /\ sink' = SubSeq(sink, 1, Len(sink) - 1)
    /\ UNCHANGED <<handler, subscribed, watched, subq, sinkCap, rxAlive,
                   pending,
                   clientVars, codecVars>>
recv ==
    /\ rxAlive
    /\ sink # <<>>
    /\ sink' = Tail(sink)
    /\ UNCHANGED <<handler, subscribed, watched, subq, sinkCap, rxAlive,
                   pending,
                   clientVars, codecVars>>

\* The consumer drops the receiving end.
drop_receiver ==
    /\ rxAlive
    /\ handler # "none"
    /\ rxAlive' = FALSE
    /\ sink' = <<>>
    /\ UNCHANGED <<handler, subscribed, watched, subq, sinkCap, pending,
                   clientVars, codecVars>>

WatchInit ==
    /\ handler = "none"
    /\ subscribed = <<>>
    /\ watched = "None"
    /\ subq = <<>>
    /\ sink = <<>>
    /\ sinkCap = 0
    /\ rxAlive = TRUE
    /\ pending = NoEvent

(***************************************************************************)
(* The codec on its own: an event is wrapped, and its envelope's data is   *)
(* decoded the way the handler decodes it.                                 *)
(***************************************************************************)
CodecOff ==
    /\ cpc = "off"
    /\ event = NoEvent
    /\ envelope = NoEnvelope
    /\ decoded = DecodeFailed

CodecInit ==
    /\ cpc = "new"
    /\ event \in BusEvents
    /\ envelope = NoEnvelope
    /\ decoded = DecodeFailed

\* CloudEvent::from(event)
from ==
    /\ cpc = "new"
    /\ \E uuid \in Uuids, now \in Times :
        envelope' = CloudEventFrom(event, uuid, now)
    /\ cpc' = "wrapped"
    /\ UNCHANGED <<event, decoded,
                   clientVars, watchVars>>

\* serde_json::from_str(&ce.data)
unwrap ==
    /\ cpc = "wrapped"
    /\ decoded' = from_str(envelope.data)
    /\ cpc' = "decoded"
    /\ UNCHANGED <<event, envelope,
                   clientVars, watchVars>>

(***************************************************************************)
(* The specifications.                                                     *)
(***************************************************************************)
Init == ClientInit /\ WatchInit /\ CodecOff

Next ==
    \/ get_hosts
    \/ get_bindings
    \/ get_actors
    \/ get_capabilities
    \/ perform_launch_auction
    \/ timeout_iter_next
    \/ timeout_iter_end
    \/ launch_actor_on_host
    \/ launch_reply
    \/ launch_timeout
    \/ stop_actor_on_host
    \/ start_actor
    \/ start_actor_candidates
    \/ start_actor_ack
    \/ HostReply
    \/ Tick
    \/ Return

\* The request/reply calls of the client and the CLI's start.
Spec == Init /\ [][Next]_vars

WatchNext ==
    \/ watch_events
    \/ Publish
    \/ handle
    \/ send_returns
    \/ recv
    \/ drop_receiver

\* The event watcher, its feed and its consumer.
WatchSpec == Init /\ [][WatchNext]_vars

\* The same, with the handler thread scheduled whenever it can run.
FairWatchSpec == WatchSpec /\ WF_vars(handle) /\ WF_vars(send_returns)

ConcurrentNext ==
    \/ get_hosts
    \/ get_bindings
    \/ get_actors
    \/ get_capabilities
    \/ perform_launch_auction
    \/ timeout_iter_next
    \/ timeout_iter_end
    \/ launch_actor_on_host
    \/ launch_reply
    \/ launch_timeout
    \/ stop_actor_on_host
    \/ HostReply /\ Len(replyLog) < MaxInFlight
    \/ Tick
    \/ Return
    \/ watch_events
    \/ Publish
    \/ handle
    \/ send_returns
    \/ recv
    \/ drop_receiver

\* The calls of one Client and its event watch, side by side: the handler
\* runs in the subscription's own thread while the caller's thread calls.
ConcurrentSpec == Init /\ [][ConcurrentNext]_vars

CodecStart == ClientInit /\ WatchInit /\ CodecInit

CodecNext == from \/ unwrap

\* The envelope codec over every event of BusEvents.
CodecSpec == CodecStart /\ [][CodecNext]_vars

(***************************************************************************)
(* What the hosts did during the current call, read from replyLog.         *)
(***************************************************************************)
LogIndex == 1..Len(replyLog)
LogHosts == {replyLog[i].msg.host : i \in LogIndex}
Count(v, x) == Cardinality({i \in 1..Len(v) : v[i] = x})

\* The replies of the probed kind that host h sent, in arrival order.
RECURSIVE ItemsSent(_, _, _)
ItemsSent(log, kind, h) ==
    IF log = <<>> THEN <<>>
    ELSE LET m == Head(log).msg IN
         (IF m.json = "InventoryResponse" /\ m.kind = kind /\ m.host = h
          THEN m.items ELSE <<>>) \o ItemsSent(Tail(log), kind, h)

Answered(kind) ==
    {h \in Hosts : \E i \in LogIndex :
        /\ replyLog[i].msg.json = "InventoryResponse"
        /\ replyLog[i].msg.kind = kind
        /\ replyLog[i].msg.host = h}

(***************************************************************************)
(* C1.  Auction aggregation.  When the auction has returned and every host *)
(* either sent one well-formed response before the timeout had elapsed or  *)
(* sent nothing, and at least one host sent nothing, the call returned Ok  *)
(* with exactly one response for each host that replied and none for a     *)
(* host that stayed silent.                                                *)
(***************************************************************************)
C1_Case ==
    /\ pc = "done"
    /\ op = "perform_launch_auction"
    /\ io.publishOk
    /\ \A i \in LogIndex :
        /\ replyLog[i].msg.json = "LaunchAuctionResponse"
        /\ replyLog[i].at < timeout
    /\ \A i, j \in LogIndex :
        replyLog[i].msg.host = replyLog[j].msg.host => i = j
    /\ Cardinality(LogHosts) < Cardinality(Hosts)

C1_AuctionAggregation ==
    C1_Case =>
        /\ result.status = "Ok"
        /\ Len(result.vec) = Cardinality(LogHosts)
        /\ \A h \in Hosts :
            Count(result.vec, h) = IF h \in LogHosts THEN 1 ELSE 0

C1_Witness ==
    /\ C1_Case
    /\ Cardinality(LogHosts) = 2
    /\ Len(result.vec) = 2

(***************************************************************************)
(* C2.  Launch ack correlation.                                            *)
(* As claimed: a launch whose Ack names another target or another host     *)
(* fails with AckMismatch, and a launch whose Ack names the target and the *)
(* host returns that Ack.                                                  *)
(***************************************************************************)
AckReceived ==
    /\ op = "launch_actor_on_host"
    /\ pc = "done"
    /\ replyLog # <<>>
    /\ replyLog[1].msg.json = "LaunchAck"

AckCorrelates ==
    /\ replyLog[1].msg.actor_id = arg.actor_id
    /\ replyLog[1].msg.host = arg.host_id

C4_Case ==
    /\ pc = "done"
    /\ op \in {"get_actors", "get_bindings", "get_capabilities"}
    /\ result.status = "Ok"

C4_ProbeMerge ==
    C4_Case =>
        /\ DOMAIN result.map = Answered(KindOf(op))
        /\ \A h \in DOMAIN result.map :
            result.map[h] = ItemsSent(replyLog, KindOf(op), h)

C4_Witness ==
    /\ C4_Case
    /\ Cardinality(DOMAIN result.map) = 2
    /\ \E h \in DOMAIN result.map : result.map[h] = <<"b", "a", "a">>

(***************************************************************************)
(* C5.  Terminate is fire-and-forget.  stop_actor_on_host has returned in  *)
(* the step that published: it never waits, reads no reply, and its result *)
(* is Ok exactly when the publish succeeded, whatever the flush did.       *)
(***************************************************************************)
C5_TerminateFireAndForget ==
    op = "stop_actor_on_host" =>
        /\ pc = "done"
        /\ elapsed = 0
        /\ inbox = <<>>
        /\ replyLog = <<>>
        /\ (result.status = "Ok") <=> io.publishOk
        /\ result.status \in {"Ok", "Err"}
        /\ Len(published) = IF io.publishOk THEN 1 ELSE 0

C5_Witness ==
    /\ op = "stop_actor_on_host"
    /\ io.publishOk
    /\ ~io.flushOk
    /\ result = OkUnit

(***************************************************************************)
(* C6.  Bounded waiting.  As claimed: a probe or an auction has returned   *)
(* no later than the call timeout after its request was sent, and a launch *)
(* no later than the launch timeout.                                       *)
(***************************************************************************)
C6_ReturnsWithinTimeout ==
    pc = "done" =>
        /\ op \in ProbeOps \cup {"perform_launch_auction"} => elapsed <= timeout
        /\ op = "launch_actor_on_host" => elapsed <= AUCTION_TIMEOUT_SECONDS

(***************************************************************************)
(* C3.  Decode failures do not kill the event watch.  As claimed: a step   *)
(* in which the handler takes a message that does not decode leaves the    *)
(* handler running and the sink as it was, so that later messages are      *)
(* still handled.                                                          *)
(***************************************************************************)
TakesMessage == handler = "running" /\ subq # <<>> /\ subq' = Tail(subq)

C3_DecodeFailureSkipped ==
    [][(TakesMessage /\ ~Decodes[Head(subq)].ok)
          => (handler' = "running" /\ sink' = sink)]_vars

(***************************************************************************)
(* C7.  Non-blocking hand-off.  As claimed: the handler is never stalled   *)
(* in its send to the sink, whatever the sink's capacity and however slow  *)
(* its reader.                                                             *)
(***************************************************************************)
C7_HandlerNeverStalls == handler # "blocked"

(***************************************************************************)
(* C8.  Watch cancellation.  As claimed: once the consumer has dropped the *)
(* receiving end of the sink, the watch loop eventually stops running.     *)
(***************************************************************************)
WatchLoopLive == handler \in {"running", "blocked"}

C8_WatchEndsAfterReceiverDropped ==
    (WatchLoopLive /\ ~rxAlive) ~> ~WatchLoopLive

(***************************************************************************)
(* C9.  Event delivery.  As claimed: every well-formed envelope received   *)
(* on the event subject is delivered to the sink, so while the consumer    *)
(* holds the sink no well-formed envelope waits in the subscription        *)
(* without a handler that will take it.                                    *)
(***************************************************************************)
C9_EveryEnvelopeDelivered ==
    (rxAlive /\ \E i \in 1..Len(subq) : Decodes[subq[i]].ok)
        => WatchLoopLive

\* What does hold of the handler: a step that takes a well-formed envelope
\* hands exactly its event to the sink, once, and nothing else reaches the
\* sink.
HandlesEnvelopeOnce ==
    [][/\ (TakesMessage /\ WatcherDecode(Head(subq)).ok /\ rxAlive)
            => \/ sink' = Append(sink, WatcherDecode(Head(subq)).v)
               \/ handler' = "blocked"
                    /\ pending' = WatcherDecode(Head(subq)).v /\ sink' = sink
       /\ (sink' # sink /\ Len(sink') >= Len(sink) /\ ~TakesMessage)
            => handler = "blocked" /\ sink' = Append(sink, pending)]_vars

(***************************************************************************)
(* C10.  Envelope round-trip.  Decoding the data of CloudEvent::from(e)    *)
(* the way the handler does gives e, for every event e.                    *)
(***************************************************************************)
C10_EnvelopeRoundTrip ==
    cpc = "decoded" => decoded.ok /\ decoded.v = event

C10_Witness ==
    /\ cpc = "decoded"
    /\ decoded.ok
    /\ decoded.v = event
    /\ event.tag = "ActorBindingCreated"
    /\ event.actor = <<BS, "n">>
    /\ event.capid = <<DQ, "x">>
    /\ event.instance_name = <<"}", LF>>

(***************************************************************************)
(* C11.  A malformed reply aborts the probe.  When a probe has returned    *)
(* and one of the replies it received was no inventory response, it        *)
(* returned a decode error and neither a list nor a map, however many      *)
(* well-formed replies came before.                                        *)
(***************************************************************************)
Malformed(i) == replyLog[i].msg.json # "InventoryResponse"

C11_Case ==
    /\ pc = "done"
    /\ op \in ProbeOps
    /\ io.publishOk
    /\ \E i \in LogIndex : Malformed(i)

C11_MalformedReplyAbortsProbe ==
    C11_Case =>
        /\ result.status = "Err"
        /\ result.err = "DecodeError"
        /\ result.vec = <<>>
        /\ result.map = <<>>

C11_Witness ==
    /\ C11_Case
    /\ Len(replyLog) = 3
    /\ ~Malformed(1)
    /\ ~Malformed(2)
    /\ replyLog[1].msg.kind = KindOf(op)
    /\ Malformed(3)
    /\ result.status = "Err"

(***************************************************************************)
(* C12.  Absence is not an error.  A probe whose replies were all          *)
(* well-formed returned Ok, whichever hosts stayed silent; its result      *)
(* names a host only if that host replied, and is empty when no host       *)
(* replied.                                                                *)
(***************************************************************************)
C12_Case ==
    /\ pc = "done"
    /\ op \in ProbeOps
    /\ io.publishOk
    /\ \A i \in LogIndex : ~Malformed(i)

NamedHosts ==
    {result.vec[i] : i \in 1..Len(result.vec)} \cup DOMAIN result.map

C12_AbsenceIsNotAnError ==
    C12_Case =>
        /\ result.status = "Ok"
        /\ NamedHosts \subseteq LogHosts
        /\ replyLog = <<>> => result.vec = <<>> /\ result.map = <<>>

C12_Witness ==
    /\ C12_Case
    /\ op = "get_bindings"
    /\ replyLog = <<>>
    /\ result = OkMap(<<>>)

(***************************************************************************)
(* The subject of a command addressed to a host, written out segment by    *)
(* segment: [<namespace>.]wasmbus.control.<host>.actor.<action>.           *)
(***************************************************************************)
Addressed(ns, host, action) ==
    (IF ns.some THEN ns.v \o <<".">> ELSE <<>>)
        \o <<"wasmbus", ".", "control", ".", host, ".", "actor", ".", action>>

(***************************************************************************)
(* C13.  Launch waits for one reply or fails.  A launch that has returned  *)
(* sent its command on the subject addressed to the given host; its        *)
(* result is decided by the first reply alone; and with no reply it is a   *)
(* timeout error that came exactly AUCTION_TIMEOUT_SECONDS after the       *)
(* request, whatever the client's call timeout.                            *)
(***************************************************************************)
C13_Case ==
    /\ op = "launch_actor_on_host"
    /\ pc = "done"
    /\ io.publishOk

C13_LaunchOneReplyOrTimeout ==
    C13_Case =>
        /\ published[Len(published)] =
             [subject |-> Addressed(namespace, arg.host_id, "launch"),
              payload |-> LaunchCommand(arg.actor_id)]
        /\ IF replyLog = <<>>
           THEN /\ result = Err("Timeout")
                /\ elapsed = AUCTION_TIMEOUT_SECONDS
           ELSE /\ result = IF replyLog[1].msg.json = "LaunchAck"
                            THEN OkAck(replyLog[1].msg)
                            ELSE Err("DecodeError")
                /\ elapsed = replyLog[1].at
                /\ elapsed < AUCTION_TIMEOUT_SECONDS

C13_Witness ==
    /\ C13_Case
    /\ replyLog = <<>>
    /\ timeout = 1
    /\ elapsed = AUCTION_TIMEOUT_SECONDS
    /\ result = Err("Timeout")

(***************************************************************************)
(* C14.  Addressed commands are never broadcast.  Every launch or          *)
(* terminate command published for host H is on the subject                *)
(* control.<H>.actor.<action>, and of all the hosts, each listening on     *)
(* the subjects of its own id, only H receives it.                         *)
(***************************************************************************)
Commands ==
    {i \in 1..Len(published) :
        published[i].payload.json \in {"LaunchCommand", "TerminateCommand"}}

ActionOf(i) ==
    IF published[i].payload.json = "LaunchCommand"
    THEN "launch" ELSE "terminate"

Listeners(s) ==
    {h \in Hosts :
        \E a \in {"launch", "terminate"} : s = Addressed(namespace, h, a)}

C14_AddressedNeverBroadcast ==
    \A i \in Commands :
        /\ published[i].subject =
             Addressed(namespace, arg.host_id, ActionOf(i))
        /\ Listeners(published[i].subject) = {arg.host_id}

C14_Witness ==
    /\ namespace.some
    /\ arg.host_id = "N3"
    /\ \E i \in Commands :
        /\ ActionOf(i) = "terminate"
        /\ Listeners(published[i].subject) = {"N3"}

(***************************************************************************)
(* C17.  No automatic retries.  Between the start of a call and its        *)
(* return the client has published each request at most once: one message *)
(* for a probe, an auction, a launch or a terminate, and for latticectl    *)
(* start the auction request and then the launch command, also when the    *)
(* call ended in a timeout, a decode error or an unexpected                *)
(* acknowledgement.                                                        *)
(***************************************************************************)
C17_NoAutomaticRetries ==
    /\ \A i, j \in 1..Len(published) :
        published[i].payload.json = published[j].payload.json => i = j
    /\ Len(published) <= IF cli.stage \in {"launch", "exit0", "exit1"}
                         THEN 2 ELSE 1

C17_Witness ==
    /\ cli = [stage |-> "exit1", err |-> "DecodeError"]
    /\ op = "launch_actor_on_host"
    /\ Len(replyLog) = 1
    /\ Len(published) = 2

(***************************************************************************)
(* C18.  Routing subject by variant.  The subject of the envelope made     *)
(* from an event is the host id for host started/stopped, the actor id     *)
(* for the actor variants, <capid>.<instance_name> for provider            *)
(* loaded/removed and <actor>.<capid>.<instance_name> for binding          *)
(* created/removed; and for a variant that is not a host variant the       *)
(* subject is the same whatever the host field holds.                      *)
(***************************************************************************)
RoutingSubject(e) ==
    IF e.tag \in {"HostStarted", "HostStopped"}
    THEN e.host
    ELSE IF e.tag \in {"ProviderLoaded", "ProviderRemoved"}
    THEN e.capid \o <<".">> \o e.instance_name
    ELSE IF e.tag \in {"ActorBindingCreated", "ActorBindingRemoved"}
    THEN e.actor \o <<".">> \o e.capid \o <<".">> \o e.instance_name
    ELSE e.actor

C18_RoutingSubjectByVariant ==
    cpc \in {"wrapped", "decoded"} =>
        /\ envelope.subject = [some |-> TRUE, v |-> RoutingSubject(event)]
        /\ event.tag \notin {"HostStarted", "HostStopped"} =>
            \A h \in Texts :
                CloudEventFrom([event EXCEPT !.host = h], envelope.event_id,
                               envelope.event_time).subject
                    = envelope.subject

C18_Witness ==
    /\ cpc = "wrapped"
    /\ event.tag = "ActorBindingRemoved"
    /\ event.host = <<"N1">>
    /\ envelope.subject.v = <<"M1", ".", DQ, "x", ".", BS, "n">>

(***************************************************************************)
(* C19.  Content-type check on decode.  As claimed: a step in which the    *)
(* handler takes an envelope whose content type is not application/json    *)
(* hands no event to the sink, even when the envelope's data is the text   *)
(* of a known variant.                                                     *)
(***************************************************************************)
OtherContentType(data) ==
    LET ce == from_slice_CloudEvent(data) IN
    ce.ok /\ ce.v.content_type # JSON_CONTENT_TYPE

C19_ContentTypeChecked ==
    [][(TakesMessage /\ OtherContentType(Head(subq)))
          => (sink' = sink /\ pending' = pending)]_vars

(***************************************************************************)
(* The operations of the client and the subject each one uses.             *)
(***************************************************************************)
Operations ==
    {[name |-> n, host |-> ""] :
        n \in ProbeOps \cup {"perform_launch_auction", "watch_events"}}
    \cup {[name |-> n, host |-> h] :
            n \in {"launch_actor_on_host", "stop_actor_on_host"}, h \in Hosts}

SubjectOf(ns, o) ==
    CASE o.name \in ProbeOps -> gen_subject(ns, ProbeSubject(o.name))
      [] o.name = "perform_launch_auction" -> AuctionSubject(ns)
      [] o.name = "watch_events" -> gen_subject(ns, EVENTS)
      [] o.name = "launch_actor_on_host" ->
            gen_launch_actor_subject(ns, o.host)
      [] o.name = "stop_actor_on_host" ->
            gen_terminate_actor_subject(ns, o.host)

CurrentOperation == [name |-> op, host |-> arg.host_id]

(***************************************************************************)
(* C15.  Subject construction is injective.  Under the client's namespace  *)
(* setting two distinct operations (the probes, the auction, the event     *)
(* watch, and a launch or a terminate for each host) never have the same   *)
(* subject; and the subject a call has published on is the subject of      *)
(* that call's operation and of no other.                                  *)
(***************************************************************************)
\* The subjects of all operations under each namespace setting, and the
\* pairs of distinct operations that share one.
Subjects == [ns \in Namespaces |-> [o \in Operations |-> SubjectOf(ns, o)]]

Collisions ==
    [ns \in Namespaces |->
        {pair \in Operations \X Operations :
            /\ pair[1] # pair[2]
            /\ Subjects[ns][pair[1]] = Subjects[ns][pair[2]]}]

C15_SubjectsInjective ==
    /\ Collisions[namespace] = {}
    /\ (pc # "idle" /\ io.publishOk /\ published # <<>>) =>
        \A o \in Operations :
            Subjects[namespace][o] = published[Len(published)].subject
                <=> o = CurrentOperation

C15_Witness ==
    /\ namespace.some
    /\ pc = "done"
    /\ CurrentOperation = [name |-> "stop_actor_on_host", host |-> "N2"]
    /\ published # <<>>
    /\ published[Len(published)].subject
         = SubjectOf(namespace, CurrentOperation)
    /\ published[Len(published)].subject
         # SubjectOf(namespace,
                     [name |-> "launch_actor_on_host", host |-> "N2"])

(***************************************************************************)
(* C16.  Namespace invariant.  Every subject the client has published on   *)
(* (probes, auction, launch, terminate) and the subject of its event       *)
(* watch begin with N.wasmbus. when the client was built with namespace    *)
(* N, and with wasmbus. when it was built without one.                     *)
(***************************************************************************)
NamespacePrefix ==
    IF namespace.some
    THEN namespace.v \o <<".", "wasmbus", ".">>
    ELSE <<"wasmbus", ".">>

BeginsWith(s, prefix) ==
    /\ Len(s) > Len(prefix)
    /\ SubSeq(s, 1, Len(prefix)) = prefix

C16_NamespacePrefixesSubjects ==
    /\ \A i \in 1..Len(published) :
        BeginsWith(published[i].subject, NamespacePrefix)
    /\ subscribed # <<>> => BeginsWith(subscribed, NamespacePrefix)

C16_Witness ==
    /\ namespace.some
    /\ subscribed = <<"prod", ".", "wasmbus", ".", "events">>
    /\ op = "perform_launch_auction"
    /\ published # <<>>
    /\ BeginsWith(published[1].subject, <<"prod", ".", "wasmbus", ".">>)

(***************************************************************************)
(* C20.  The watch is independent of calls in flight.  While a probe, an   *)
(* auction or a launch waits for replies, the handler can take the next    *)
(* event whenever it is running and the subscription holds one; a step of  *)
(* the watch leaves the call and its replies as they were, and a step of   *)
(* a call leaves the subscription, the handler and the sink as they were.  *)
(***************************************************************************)
CallInFlight == pc \in {"collecting", "awaiting"}

CallState == <<pc, op, arg, io, inbox, results, host_map, result, elapsed,
               waited, published, replyLog>>

C20_WatchIndependentOfCalls ==
    /\ [](CallInFlight /\ handler = "running" /\ subq # <<>>
            => ENABLED handle)
    /\ [][/\ watchVars' # watchVars => CallState' = CallState
          /\ CallState' # CallState => watchVars' = watchVars]_vars

C20_Witness ==
    /\ CallInFlight
    /\ inbox # <<>>
    /\ handler = "running"
    /\ subq # <<>>
    /\ sink # <<>>

(***************************************************************************)
(* C21.  Deadline semantics of collection.  As claimed: the result of a    *)
(* probe or an auction holds no more than the replies that arrived before  *)
(* the call timeout had elapsed since the request was published.           *)
(***************************************************************************)
Kept(i) ==
    IF op = "perform_launch_auction"
    THEN replyLog[i].msg.json = "LaunchAuctionResponse"
    ELSE /\ replyLog[i].msg.json = "InventoryResponse"
         /\ replyLog[i].msg.kind = KindOf(op)

BeforeDeadline(i) == replyLog[i].at < timeout

OnTimeLog ==
    LET OnTime(entry) == entry.at < timeout IN SelectSeq(replyLog, OnTime)

C21_Case ==
    /\ pc = "done"
    /\ op \in ProbeOps \cup {"perform_launch_auction"}
    /\ result.status = "Ok"

C21_OnlyRepliesBeforeDeadline ==
    C21_Case =>
        /\ Len(result.vec)
             <= Cardinality({i \in LogIndex : Kept(i) /\ BeforeDeadline(i)})
        /\ \A h \in DOMAIN result.map :
            Len(result.map[h]) <= Len(ItemsSent(OnTimeLog, KindOf(op), h))

(***************************************************************************)
(* C22.  Start sequencing in the CLI.  While latticectl start runs, a      *)
(* message is published only by the step in which the auction has          *)
(* returned Ok with at least one response, and that message is the launch  *)
(* command for the host of the first response received; the launch         *)
(* command is published at most once and after the auction request; and    *)
(* when the auction returned no response, the next step ends with exit     *)
(* code 0 and publishes nothing.                                           *)
(***************************************************************************)
InStart == cli.stage \in {"auction", "launch"}

AuctionReturned ==
    /\ cli.stage = "auction"
    /\ pc = "done"
    /\ result.status = "Ok"

LaunchPublished ==
    {i \in 1..Len(published) : published[i].payload.json = "LaunchCommand"}

C22_StartSequencing ==
    /\ [](cli.stage # "none" =>
            /\ Cardinality(LaunchPublished) <= 1
            /\ LaunchPublished \subseteq {2}
            /\ LaunchPublished # {} =>
                published[1].payload.json = "LaunchAuctionRequest")
    /\ [][/\ (InStart /\ Len(published') > Len(published)) =>
                /\ AuctionReturned
                /\ result.vec # <<>>
                /\ result.vec[1] = replyLog[1].msg.host
                /\ published' = Append(published,
                     [subject |-> Addressed(namespace, result.vec[1], "launch"),
                      payload |-> LaunchCommand(arg.actor_id)])
          /\ (AuctionReturned /\ result.vec = <<>>) =>
                /\ cli' = [stage |-> "exit0", err |-> ""]
                /\ published' = published]_vars

C22_Witness ==
    /\ cli.stage = "launch"
    /\ pc = "awaiting"
    /\ arg.host_id = "N3"
    /\ Len(published) = 2
    /\ published[2].subject = Addressed(namespace, "N3", "launch")

(***************************************************************************)
(* C23.  Event type by variant tag.  The event type of the envelope made   *)
(* from an event is wasmbus.events.<suffix>, one segment after the         *)
(* prefix; all events of the event's variant, whatever their fields, have  *)
(* that event type, and no event of another variant has it.                *)
(***************************************************************************)
\* The event types of all events of each variant.
EventTypes ==
    [t \in Tags |-> {event_type(e) : e \in {b \in BusEvents : b.tag = t}}]

C23_EventTypeByVariant ==
    cpc \in {"wrapped", "decoded"} =>
        /\ Len(envelope.event_type) = 5
        /\ SubSeq(envelope.event_type, 1, 4) = <<"wasmbus", ".", "events", ".">>
        /\ EventTypes[event.tag] = {envelope.event_type}
        /\ \A t \in Tags \ {event.tag} :
            envelope.event_type \notin EventTypes[t]

C23_Witness ==
    /\ cpc = "wrapped"
    /\ event.tag = "ActorBecameUnhealthy"
    /\ event.actor = <<DQ, "x">>
    /\ envelope.event_type
         = <<"wasmbus", ".", "events", ".", "actor_became_unhealthy">>

(***************************************************************************)
(* C24.  Order preservation in the watcher.  The events on their way to    *)
(* the consumer (in the sink, held by a blocked send, and still in the     *)
(* subscription) stand in the order in which their messages were           *)
(* received: a publish adds one at the end, every other step only takes    *)
(* events out and never changes the order of the rest, and the consumer    *)
(* always receives the one at the front of the sink.                       *)
(***************************************************************************)
Pipeline ==
    sink \o (IF handler = "blocked" THEN <<pending>> ELSE <<>>)
         \o [i \in 1..Len(subq) |-> Decodes[subq[i]].v]

\* The elements of seq at the places in keep, in their order.
RECURSIVE Pick(_, _)
Pick(seq, keep) ==
    IF seq = <<>> THEN <<>>
    ELSE Pick(SubSeq(seq, 1, Len(seq) - 1), keep)
            \o (IF Len(seq) \in keep THEN <<seq[Len(seq)]>> ELSE <<>>)

IsSubsequence(a, b) ==
    \E keep \in SUBSET (1..Len(b)) : a = Pick(b, keep)

C24_OrderPreserved ==
    [][/\ IF Len(subq') > Len(subq)
          THEN Pipeline' = Append(Pipeline, Decodes[subq'[Len(subq')]].v)
          ELSE IsSubsequence(Pipeline', Pipeline)
       /\ (rxAlive' /\ Len(sink') < Len(sink)) => sink' = Tail(sink)]_vars

C24_Witness ==
    /\ handler = "running"
    /\ rxAlive
    /\ Len(sink) = 2
    /\ sink[1] # sink[2]
    /\ sink[1].tag = "HostStopped"

(***************************************************************************)
(* C25.  Stateless per call.  No step of a probe, an auction, a launch, a  *)
(* terminate or the watch changes the client's namespace or timeout;       *)
(* every call starts with empty accumulators and with no reply to read;    *)
(* and the result of a probe or an auction names only hosts that replied   *)
(* to that call and holds no more than that call received.                 *)
(***************************************************************************)
CallStarts == pc = "idle" /\ pc' # "idle"

C25_Case ==
    /\ pc = "done"
    /\ op \in ProbeOps \cup {"perform_launch_auction"}
    /\ result.status = "Ok"

C25_StatelessPerCall ==
    /\ [](C25_Case =>
            /\ NamedHosts \subseteq LogHosts
            /\ Len(result.vec) <= Len(replyLog)
            /\ \A h \in DOMAIN result.map :
                result.map[h] = ItemsSent(replyLog, KindOf(op), h))
    /\ [][/\ namespace' = namespace
          /\ timeout' = timeout
          /\ CallStarts =>
                /\ results' = <<>>
                /\ host_map' = <<>>
                /\ inbox' = <<>>
                /\ replyLog' = <<>>]_vars

C25_Witness ==
    /\ C25_Case
    /\ op = "get_capabilities"
    /\ handler = "running"
    /\ DOMAIN result.map = {"N2"}
    /\ Len(replyLog) = 1

(***************************************************************************)
(* C26.  Wrong-kind replies are ignored.  A probe that received only       *)
(* well-formed inventory responses, one of them of another kind than the   *)
(* probed one, returned Ok, and its result is what the replies of the      *)
(* probed kind alone give: the replies of the other kind add no host, no   *)
(* entry and no item.                                                      *)
(***************************************************************************)
WrongKind(i) ==
    /\ replyLog[i].msg.json = "InventoryResponse"
    /\ replyLog[i].msg.kind # KindOf(op)

RightKindLog ==
    LET RightKind(entry) == entry.msg.kind = KindOf(op) IN
    SelectSeq(replyLog, RightKind)

C26_Case ==
    /\ pc = "done"
    /\ op \in ProbeOps
    /\ io.publishOk
    /\ \A i \in LogIndex : ~Malformed(i)
    /\ \E i \in LogIndex : WrongKind(i)

C26_WrongKindIgnored ==
    C26_Case =>
        /\ result.status = "Ok"
        /\ IF op = "get_hosts"
           THEN /\ result.vec
                     = [i \in 1..Len(RightKindLog) |-> RightKindLog[i].msg.host]
                /\ result.map = <<>>
           ELSE /\ result.vec = <<>>
                /\ DOMAIN result.map
                     = {RightKindLog[i].msg.host : i \in 1..Len(RightKindLog)}
                /\ \A h \in DOMAIN result.map :
                    result.map[h] = ItemsSent(RightKindLog, KindOf(op), h)

C26_Witness ==
    /\ C26_Case
    /\ op = "get_actors"
    /\ Len(replyLog) = 1
    /\ replyLog[1].msg.kind = "Host"
    /\ result = OkMap(<<>>)

(***************************************************************************)
(* C27.  A malformed reply aborts the auction.  When an auction has        *)
(* returned and one of the replies it received was no auction response,    *)
(* it returned a decode error and no list: the responses collected before  *)
(* the malformed reply are gone, and the reply did not count as silence.   *)
(***************************************************************************)
NoAuctionResponse(i) == replyLog[i].msg.json # "LaunchAuctionResponse"

C27_Case ==
    /\ pc = "done"
    /\ op = "perform_launch_auction"
    /\ io.publishOk
    /\ \E i \in LogIndex : NoAuctionResponse(i)

C27_MalformedReplyAbortsAuction ==
    C27_Case =>
        /\ result.status = "Err"
        /\ result.err = "DecodeError"
        /\ result.vec = <<>>
        /\ results = <<>>

C27_Witness ==
    /\ C27_Case
    /\ cli.stage = "none"
    /\ Len(replyLog) = 3
    /\ ~NoAuctionResponse(1)
    /\ ~NoAuctionResponse(2)
    /\ NoAuctionResponse(3)
    /\ result.status = "Err"

=============================================================================
